---- MODULE Spec2Model ----
(***************************************************************************)
(* A model of staticmap_mcp/server.py: one call of render_route_map, step  *)
(* by step, and the projection _geo_to_pixel.                              *)
(*                                                                         *)
(* Conventions.                                                            *)
(*  - Python's None is <<>> and any other value v is <<v>> (NoneVal/Some). *)
(*  - A marker dict is a function from the keys it holds to such values,   *)
(*    so a key can be absent or present with the value None.               *)
(*  - Longitudes and latitudes are in tenths of a degree.                  *)
(*  - Tile-space x is in units of 1/LonDen of a tile and tile-space y in   *)
(*    units of 1/MercScale of a tile, so that the arithmetic of            *)
(*    _geo_to_pixel is exact rational arithmetic on integers.              *)
(*  - A Python str is a sequence of tokens, so that "starts with" and      *)
(*    the string form of a path are computed, not assumed.                 *)
(***************************************************************************)
EXTENDS Integers, Sequences, FiniteSets, TLC

VARIABLES
    pc,           \* position of the call in render_route_map
    coordinates,  \* argument: None or a list of [lon, lat] pairs
    output_path,  \* argument: the path as given
    markers,      \* argument: None or a list of marker dicts
    width,        \* argument
    height,       \* argument
    m,            \* the StaticMap object: lines, markers, zoom, x_center, y_center
    font,         \* the font loaded for the labels (None before)
    i,            \* index of the label loop (line 71)
    projected,    \* the calls of _geo_to_pixel made so far, with their outcomes
    rectangles,   \* draw.rectangle calls made so far
    texts,        \* draw.text calls made so far
    out,          \* the local `out` (None before line 100)
    dirs,         \* file system: the directories that exist
    files,        \* file system: the files that exist
    calls,        \* the collaborator calls made so far, in order
    result        \* None, or the returned value / the raised exception

vars == <<pc, coordinates, output_path, markers, width, height, m, font, i,
          projected, rectangles, texts, out, dirs, files, calls, result>>

----------------------------------------------------------------------------
(* Bounds of the model *)

MaxRoute == 3
MaxMarkers == 2
MaxZoom == 2

(* Program constants *)

TileSize == 256
LabelOffsetX == 10
LabelMargin == 4
BoxPad == 2
LonDen == 3600
MercScale == 10000

----------------------------------------------------------------------------
(* Python values *)

NoneVal == <<>>
Some(v) == <<v>>
IsNone(o) == o = <<>>
Val(o) == o[1]

\* dict.get(key, default)
Get(d, key, default) == IF key \in DOMAIN d THEN d[key] ELSE default

\* `not x` for an optional list and for an optional str
FalsyList(o) == IF IsNone(o) THEN TRUE ELSE Val(o) = <<>>
FalsyStr(o) == IF IsNone(o) THEN TRUE ELSE Val(o) = ""

Min(a, b) == IF a <= b THEN a ELSE b
Max(a, b) == IF a >= b THEN a ELSE b

\* Python's int() of the rational num/den (den > 0): truncation toward zero
IntOf(num, den) == IF num >= 0 THEN num \div den ELSE -((-num) \div den)

\* Python's floor division a // b for b > 0
FloorDiv(a, b) == a \div b

Returned(v) == [kind |-> "return", value |-> v]
Raised(e) == [kind |-> "raise", value |-> e]

ErrorPrefix == "Error: "
ValidationMessage ==
    <<ErrorPrefix, "coordinates must contain at least 2 [lon, lat] pairs.">>

----------------------------------------------------------------------------
(* pathlib *)

Cwd == <<"work">>

RECURSIVE Normalize(_, _)
\* lexical normalisation of a component list: "." dropped, ".." pops
Normalize(parts, acc) ==
    IF parts = <<>> THEN acc
    ELSE LET p == Head(parts) IN
         IF p = "." THEN Normalize(Tail(parts), acc)
         ELSE IF p = ".."
              THEN Normalize(Tail(parts),
                             IF acc = <<>> THEN acc
                             ELSE SubSeq(acc, 1, Len(acc) - 1))
              ELSE Normalize(Tail(parts), Append(acc, p))

\* Path(p).resolve(): absolute, normalised (no symbolic links in the model)
Resolve(p) == Normalize((IF p.abs THEN <<>> ELSE Cwd) \o p.parts, <<>>)

\* Path.parent of an absolute component list
Parent(q) == IF q = <<>> THEN q ELSE SubSeq(q, 1, Len(q) - 1)

RECURSIVE Join(_)
Join(q) == IF q = <<>> THEN <<>>
           ELSE IF Len(q) = 1 THEN q
           ELSE <<Head(q), "/">> \o Join(Tail(q))

\* str() of an absolute path
PathStr(q) == <<"/">> \o Join(q)

\* str() of a path as given
RawStr(p) == (IF p.abs THEN <<"/">> ELSE <<>>) \o Join(p.parts)

Prefixes(q) == {SubSeq(q, 1, k) : k \in 0..Len(q)}

----------------------------------------------------------------------------
(* Web Mercator *)

\* (lon + 180.0) / 360.0 * n, in 1/LonDen of a tile
XTile(lon, zoom) == (lon + 1800) * 2^zoom

\* Latitudes at which math.log(math.tan(r) + 1.0 / math.cos(r)) is defined in
\* double precision.  At -90 the sum is 0.0 and math.log raises ValueError;
\* at +90 tan and 1/cos are both 1.633e16 and the logarithm is 38.025.
MercatorDefined(lat) == lat # -900

\* (1.0 - math.log(math.tan(r) + 1.0 / math.cos(r)) / math.pi) / 2.0, in
\* 1/MercScale, as the code's expression evaluates at the model's latitudes
MercatorFrac(lat) ==
    CASE lat = 0 -> 5000
      [] lat = 281 -> 4186
      [] lat = 282 -> 4183
      [] lat = 600 -> 2904
      [] lat = -600 -> 7096
      [] lat = 850 -> 16
      [] lat = 900 -> -55519

YTile(lat, zoom) == MercatorFrac(lat) * 2^zoom

\* the offset from the centre taken with the wrong sign
PixelXFlipped(map, lon) ==
    IntOf((map.x_center - XTile(lon, map.zoom)) * 2 * TileSize + LonDen * map.width,
          2 * LonDen)

\* int((x_tile - m.x_center) * tile_size + m.width / 2)
PixelX(map, lon) ==
    IntOf((XTile(lon, map.zoom) - map.x_center) * 2 * TileSize + LonDen * map.width,
          2 * LonDen)

\* int((y_tile - m.y_center) * tile_size + m.height / 2)
PixelY(map, lat) ==
    IntOf((YTile(lat, map.zoom) - map.y_center) * 2 * TileSize + MercScale * map.height,
          2 * MercScale)

\* _geo_to_pixel(m, lon, lat): the pixel pair, or the exception raised
_geo_to_pixel(map, lon, lat) ==
    IF MercatorDefined(lat)
    THEN Returned(<<PixelX(map, lon), PixelY(map, lat)>>)
    ELSE Raised("ValueError")

----------------------------------------------------------------------------
(* PIL text metrics: ImageDraw.textbbox((0, 0), label, font=font) *)

LabelChars(label) ==
    CASE label = "End" -> 3
      [] label = "Start" -> 5
      [] label = "Zero" -> 4
      [] label = "Pole" -> 4
      [] OTHER -> 0

CharWidth(f) == IF f = "truetype" THEN 9 ELSE 6
LineTop(f) == IF f = "truetype" THEN 3 ELSE 0
LineHeight(f) == IF f = "truetype" THEN 9 ELSE 11

textbbox(label, f) ==
    <<0, LineTop(f), LabelChars(label) * CharWidth(f), LineTop(f) + LineHeight(f)>>

----------------------------------------------------------------------------
(* The label placement of render_route_map, lines 82-93 *)

TextWidth(label, f) == textbbox(label, f)[3] - textbbox(label, f)[1]
TextHeight(label, f) == textbbox(label, f)[4] - textbbox(label, f)[2]

\* label_x = min(px + 10, width - tw - 4)
LabelX(px, tw, w) == Min(px + LabelOffsetX, w - tw - LabelMargin)

\* label_y = max(4, min(py - th // 2, height - th - 4))
LabelY(py, th, h) ==
    Max(LabelMargin, Min(py - FloorDiv(th, 2), h - th - LabelMargin))

\* the list handed to draw.rectangle
LabelBox(px, py, tw, th, w, h) ==
    <<LabelX(px, tw, w) - BoxPad, LabelY(py, th, h) - BoxPad,
      LabelX(px, tw, w) + tw + BoxPad, LabelY(py, th, h) + th + BoxPad>>

----------------------------------------------------------------------------
(* The inputs of the model *)

SamplePoint(j) ==
    CASE j % 3 = 1 -> <<-171, 281>>
      [] j % 3 = 2 -> <<-172, 282>>
      [] OTHER -> <<-173, 281>>

\* coordinates: None, or a list of 0..MaxRoute points
Routes == {NoneVal} \cup {Some([j \in 1..k |-> SamplePoint(j)]) : k \in 0..MaxRoute}

MarkerKinds ==
    { [lon |-> Some(-171), lat |-> Some(281), label |-> Some("Start")],
      [lon |-> Some(-173), lat |-> Some(281)],
      [lon |-> Some(-172), lat |-> Some(282), label |-> Some("")],
      [lon |-> Some(0), lat |-> Some(0), label |-> Some("Zero")],
      [lat |-> Some(281), label |-> Some("Start")],
      [lon |-> Some(-171), lat |-> NoneVal, label |-> Some("End")],
      [lon |-> Some(-171), lat |-> Some(900), label |-> Some("Pole")],
      [lon |-> Some(-171), lat |-> Some(-900), label |-> Some("Pole")] }

MarkerLists == UNION {[1..k -> MarkerKinds] : k \in 0..MaxMarkers}

\* markers: None (the default), or a list of 0..MaxMarkers marker dicts
MarkerArgs == {NoneVal} \cup {Some(l) : l \in MarkerLists}

OutputPaths ==
    { [abs |-> TRUE, parts |-> <<"tmp", "nope.png">>],
      [abs |-> FALSE, parts |-> <<"sub", "dir", "route.png">>],
      [abs |-> FALSE, parts |-> <<"Error: ", "..", "sub", ".", "route.png">>] }

\* <<width, height>>: the defaults, and an image small against its labels
Sizes == {<<800, 600>>, <<40, 30>>}

\* the centre of the extent the tile renderer settles on
Centers == {<<-172, 282>>, <<0, 0>>}

InitialDirs == {<<>>, <<"tmp">>, Cwd}

\* the files there before the call: one of the targets (to be overwritten),
\* or a file where a parent directory of a target is to be
InitialFiles == { {<<"tmp", "nope.png">>}, {Cwd \o <<"sub">>} }

----------------------------------------------------------------------------
(* render_route_map, step by step *)

\* StaticMap(width, height, ...) as constructed at line 46
StaticMap(w, h) ==
    [width |-> w, height |-> h, lines |-> <<>>, markers |-> <<>>,
     zoom |-> 0, x_center |-> 0, y_center |-> 0]

Init ==
    /\ pc = "start"
    /\ coordinates \in Routes
    /\ output_path \in OutputPaths
    /\ markers \in MarkerArgs
    /\ \E s \in Sizes : width = s[1] /\ height = s[2]
    /\ m = NoneVal
    /\ font = NoneVal
    /\ i = 1
    /\ projected = <<>>
    /\ rectangles = <<>>
    /\ texts = <<>>
    /\ out = NoneVal
    /\ dirs = InitialDirs
    /\ files \in InitialFiles
    /\ calls = <<>>
    /\ result = NoneVal

\* the validation with its bound off by one: len(coordinates) < 1
TooFewPointsOffByOne(c) == IF FalsyList(c) THEN TRUE ELSE Len(Val(c)) < 1

\* line 42: not coordinates or len(coordinates) < 2
TooFewPoints(c) == IF FalsyList(c) THEN TRUE ELSE Len(Val(c)) < 2

\* the validation error returned only after the map was constructed and the
\* line added
RejectRouteLate ==
    /\ pc = "start"
    /\ TooFewPoints(coordinates)
    /\ m' = Some(StaticMap(width, height))
    /\ calls' = calls \o <<"StaticMap", "add_line">>
    /\ result' = Returned(ValidationMessage)
    /\ pc' = "done"
    /\ UNCHANGED <<coordinates, output_path, markers, width, height, font, i,
                   projected, rectangles, texts, out, dirs, files>>

\* lines 42-43: the validation error
RejectRoute ==
    /\ pc = "start"
    /\ TooFewPoints(coordinates)
    /\ result' = Returned(ValidationMessage)
    /\ pc' = "done"
    /\ UNCHANGED <<coordinates, output_path, markers, width, height, m, font, i,
                   projected, rectangles, texts, out, dirs, files, calls>>

\* lines 45-50: the map is constructed and the route line added
AddLine ==
    /\ pc = "start"
    /\ ~TooFewPoints(coordinates)
    /\ m' = Some([StaticMap(width, height) EXCEPT
                    !.lines = <<[coords |-> Val(coordinates)]>>])
    /\ calls' = calls \o <<"StaticMap", "add_line">>
    /\ pc' = "markers"
    /\ UNCHANGED <<coordinates, output_path, markers, width, height, font, i,
                   projected, rectangles, texts, out, dirs, files, result>>

\* the test written with truthiness: `if lon and lat`
HasPositionTruthy(marker) ==
    LET lon == Get(marker, "lon", NoneVal)
        lat == Get(marker, "lat", NoneVal)
    IN IF IsNone(lon) \/ IsNone(lat) THEN FALSE ELSE Val(lon) # 0 /\ Val(lat) # 0

\* line 57: lon is not None and lat is not None
HasPosition(marker) ==
    ~IsNone(Get(marker, "lon", NoneVal)) /\ ~IsNone(Get(marker, "lat", NoneVal))

RECURSIVE CircleMarkers(_, _)
\* lines 54-58: the CircleMarker objects added for the list ms, `of` being the
\* index of the marker each was made from
CircleMarkers(ms, k) ==
    IF k > Len(ms) THEN <<>>
    ELSE (IF HasPosition(ms[k])
          THEN <<[of |-> k, coord |-> <<Val(ms[k].lon), Val(ms[k].lat)>>,
                  color |-> "red", width |-> 8]>>
          ELSE <<>>) \o CircleMarkers(ms, k + 1)

\* lines 53-58: the first pass over the markers
AddMarkers ==
    /\ pc = "markers"
    /\ LET added == IF FalsyList(markers) THEN <<>>
                    ELSE CircleMarkers(Val(markers), 1)
       IN /\ m' = Some([Val(m) EXCEPT !.markers = added])
          /\ calls' = calls \o [k \in 1..Len(added) |-> "add_marker"]
    /\ pc' = "render"
    /\ UNCHANGED <<coordinates, output_path, markers, width, height, font, i,
                   projected, rectangles, texts, out, dirs, files, result>>

\* line 61: m.render() succeeds and leaves its zoom and centre on m
Render ==
    /\ pc = "render"
    /\ \E z \in 0..MaxZoom, c \in Centers :
          m' = Some([Val(m) EXCEPT !.zoom = z,
                                   !.x_center = XTile(c[1], z),
                                   !.y_center = YTile(c[2], z)])
    /\ calls' = Append(calls, "render")
    /\ pc' = IF FalsyList(markers) THEN "resolve" ELSE "font"
    /\ UNCHANGED <<coordinates, output_path, markers, width, height, font, i,
                   projected, rectangles, texts, out, dirs, files, result>>

\* the failure of m.render() held back by a `finally` that still saves
RenderFailsDeferred ==
    /\ pc = "render"
    /\ calls' = Append(calls, "render")
    /\ result' = Raised("RuntimeError")
    /\ pc' = "resolve"
    /\ UNCHANGED <<coordinates, output_path, markers, width, height, m, font, i,
                   projected, rectangles, texts, out, dirs, files>>

\* line 61: m.render() raises (a tile could not be fetched)
RenderFails ==
    /\ pc = "render"
    /\ calls' = Append(calls, "render")
    /\ result' = Raised("RuntimeError")
    /\ pc' = "done"
    /\ UNCHANGED <<coordinates, output_path, markers, width, height, m, font, i,
                   projected, rectangles, texts, out, dirs, files>>

\* lines 65-69: the drawing context and the font, with the fallback
LoadFont ==
    /\ pc = "font"
    /\ \/ /\ font' = Some("truetype")
          /\ calls' = calls \o <<"Draw", "truetype">>
       \/ /\ font' = Some("default")
          /\ calls' = calls \o <<"Draw", "truetype", "load_default">>
    /\ pc' = "labels"
    /\ UNCHANGED <<coordinates, output_path, markers, width, height, m, i,
                   projected, rectangles, texts, out, dirs, files, result>>

\* the test without `or not label`
SkipLabelIgnoringLabel(marker) ==
    IF IsNone(Get(marker, "lon", NoneVal)) THEN TRUE
    ELSE IsNone(Get(marker, "lat", NoneVal))

\* line 75: lon is None or lat is None or not label
SkipLabel(marker) ==
    IF IsNone(Get(marker, "lon", NoneVal)) THEN TRUE
    ELSE IF IsNone(Get(marker, "lat", NoneVal)) THEN TRUE
    ELSE FalsyStr(Get(marker, "label", Some("")))

\* lines 71-76: an iteration of the label loop that hits `continue`
SkipMarker ==
    /\ pc = "labels"
    /\ i <= Len(Val(markers))
    /\ SkipLabel(Val(markers)[i])
    /\ i' = i + 1
    /\ UNCHANGED <<pc, coordinates, output_path, markers, width, height, m, font,
                   projected, rectangles, texts, out, dirs, files, calls, result>>

\* the record kept of one call of _geo_to_pixel
Projection(k, map, lon, lat) ==
    [of |-> k, lon |-> lon, lat |-> lat, outcome |-> _geo_to_pixel(map, lon, lat)]

\* lines 71-97: an iteration of the label loop that draws the label
DrawLabel ==
    /\ pc = "labels"
    /\ i <= Len(Val(markers))
    /\ ~SkipLabel(Val(markers)[i])
    /\ LET marker == Val(markers)[i]
           label == Val(Get(marker, "label", Some("")))
           p == Projection(i, Val(m), Val(marker.lon), Val(marker.lat))
           tw == TextWidth(label, Val(font))
           th == TextHeight(label, Val(font))
       IN /\ p.outcome.kind = "return"
          /\ LET px == p.outcome.value[1]
                 py == p.outcome.value[2]
             IN /\ projected' = Append(projected, p)
                /\ rectangles' = Append(rectangles,
                       [of |-> i, box |-> LabelBox(px, py, tw, th, width, height),
                        fill |-> "white", outline |-> "gray"])
                /\ texts' = Append(texts,
                       [of |-> i, at |-> <<LabelX(px, tw, width), LabelY(py, th, height)>>,
                        text |-> label, fill |-> "black"])
    /\ calls' = calls \o <<"textbbox", "rectangle", "text">>
    /\ i' = i + 1
    /\ UNCHANGED <<pc, coordinates, output_path, markers, width, height, m, font,
                   out, dirs, files, result>>

\* lines 71-79: _geo_to_pixel raises and the exception leaves render_route_map
ProjectionRaises ==
    /\ pc = "labels"
    /\ i <= Len(Val(markers))
    /\ ~SkipLabel(Val(markers)[i])
    /\ LET marker == Val(markers)[i]
           p == Projection(i, Val(m), Val(marker.lon), Val(marker.lat))
       IN /\ p.outcome.kind = "raise"
          /\ projected' = Append(projected, p)
          /\ result' = p.outcome
    /\ pc' = "done"
    /\ UNCHANGED <<coordinates, output_path, markers, width, height, m, font, i,
                   rectangles, texts, out, dirs, files, calls>>

\* line 71: the label loop is exhausted
LabelsDone ==
    /\ pc = "labels"
    /\ i > Len(Val(markers))
    /\ pc' = "resolve"
    /\ UNCHANGED <<coordinates, output_path, markers, width, height, m, font, i,
                   projected, rectangles, texts, out, dirs, files, calls, result>>

\* line 100: out = Path(output_path).resolve()
ResolveOut ==
    /\ pc = "resolve"
    /\ out' = Some(Resolve(output_path))
    /\ calls' = Append(calls, "resolve")
    /\ pc' = "mkdir"
    /\ UNCHANGED <<coordinates, output_path, markers, width, height, m, font, i,
                   projected, rectangles, texts, dirs, files, result>>

\* mkdir(parents=True, exist_ok=True) fails when a file is where a directory
\* is to be
MkdirBlocked(d) == Prefixes(d) \cap files # {}

\* the directories after d.mkdir(parents=True, exist_ok=True)
MkdirParents(d) == dirs \cup Prefixes(d)

\* line 101: out.parent.mkdir(parents=True, exist_ok=True)
Mkdir ==
    /\ pc = "mkdir"
    /\ ~MkdirBlocked(Parent(Val(out)))
    /\ dirs' = MkdirParents(Parent(Val(out)))
    /\ calls' = Append(calls, "mkdir")
    /\ pc' = "save"
    /\ UNCHANGED <<coordinates, output_path, markers, width, height, m, font, i,
                   projected, rectangles, texts, out, files, result>>

\* line 101: mkdir raises
MkdirFails ==
    /\ pc = "mkdir"
    /\ MkdirBlocked(Parent(Val(out)))
    /\ calls' = Append(calls, "mkdir")
    /\ result' = Raised("FileExistsError")
    /\ pc' = "done"
    /\ UNCHANGED <<coordinates, output_path, markers, width, height, m, font, i,
                   projected, rectangles, texts, out, dirs, files>>

\* line 102: image.save(str(out), "PNG") writes the file
Save ==
    /\ pc = "save"
    /\ files' = files \cup {Val(out)}
    /\ calls' = Append(calls, "save")
    /\ pc' = "return"
    /\ UNCHANGED <<coordinates, output_path, markers, width, height, m, font, i,
                   projected, rectangles, texts, out, dirs, result>>

\* line 102: image.save raises (the path cannot be written)
SaveFails ==
    /\ pc = "save"
    /\ calls' = Append(calls, "save")
    /\ result' = Raised("OSError")
    /\ pc' = "done"
    /\ UNCHANGED <<coordinates, output_path, markers, width, height, m, font, i,
                   projected, rectangles, texts, out, dirs, files>>

\* the path returned as it was given: return output_path
ReturnGivenPath ==
    /\ pc = "return"
    /\ result' = Returned(RawStr(output_path))
    /\ pc' = "done"
    /\ UNCHANGED <<coordinates, output_path, markers, width, height, m, font, i,
                   projected, rectangles, texts, out, dirs, files, calls>>

\* line 104: return str(out)
Return ==
    /\ pc = "return"
    /\ result' = Returned(PathStr(Val(out)))
    /\ pc' = "done"
    /\ UNCHANGED <<coordinates, output_path, markers, width, height, m, font, i,
                   projected, rectangles, texts, out, dirs, files, calls>>

Next ==
    \/ RejectRoute
    \/ AddLine
    \/ AddMarkers
    \/ Render
    \/ RenderFails
    \/ LoadFont
    \/ SkipMarker
    \/ DrawLabel
    \/ ProjectionRaises
    \/ LabelsDone
    \/ ResolveOut
    \/ Mkdir
    \/ MkdirFails
    \/ Save
    \/ SaveFails
    \/ Return

Spec == Init /\ [][Next]_vars

----------------------------------------------------------------------------
(* _geo_to_pixel on its own: a view state, and calls on it *)

GeoLons == {-1800, -172, -171, -170, 0, 1, 1800}
GeoLats == {-900, -600, 0, 281, 282, 600, 850, 900}
GeoCenters == {<<-172, 282>>, <<0, 0>>, <<1, 600>>}

GeoInit ==
    /\ pc = "geo"
    /\ \E s \in Sizes, z \in 0..MaxZoom, c \in GeoCenters :
          /\ width = s[1]
          /\ height = s[2]
          /\ m = Some([StaticMap(s[1], s[2]) EXCEPT !.zoom = z,
                                                    !.x_center = XTile(c[1], z),
                                                    !.y_center = YTile(c[2], z)])
    /\ coordinates = NoneVal
    /\ output_path = [abs |-> FALSE, parts |-> <<>>]
    /\ markers = NoneVal
    /\ font = NoneVal
    /\ i = 1
    /\ projected = <<>>
    /\ rectangles = <<>>
    /\ texts = <<>>
    /\ out = NoneVal
    /\ dirs = InitialDirs
    /\ files = {}
    /\ calls = <<>>
    /\ result = NoneVal

\* one call _geo_to_pixel(m, lon, lat); the last two calls are kept
GeoCall ==
    /\ pc = "geo"
    /\ \E lon \in GeoLons, lat \in GeoLats :
          projected' = (IF Len(projected) < 2 THEN projected ELSE Tail(projected))
                          \o <<Projection(0, Val(m), lon, lat)>>
    /\ UNCHANGED <<pc, coordinates, output_path, markers, width, height, m, font, i,
                   rectangles, texts, out, dirs, files, calls, result>>

GeoNext == GeoCall

SpecGeo == GeoInit /\ [][GeoNext]_vars

----------------------------------------------------------------------------
(* Vocabulary of the properties, stated on the arguments themselves *)

\* the number of points of the route as given (None counts as none)
RouteLen(c) == IF c = NoneVal THEN 0 ELSE Len(c[1])

\* the marker list as given (None counts as empty)
MarkerList == IF markers = NoneVal THEN <<>> ELSE markers[1]

IsErrorString(v) == Len(v) > 0 /\ v[1] = "Error: "

HasReturned == pc = "done" /\ result # NoneVal /\ result.kind = "return"
HasRaised == pc = "done" /\ result # NoneVal /\ result.kind = "raise"

\* key is absent from the marker, or present with the value None
Lacks(marker, key) == key \notin DOMAIN marker \/ marker[key] = NoneVal

Positioned(marker) == ~Lacks(marker, "lon") /\ ~Lacks(marker, "lat")
Labelled(marker) == ~Lacks(marker, "label") /\ marker["label"] # <<"">>

\* how many entries of the sequence s were made for marker k
CountOf(s, k) == Cardinality({j \in 1..Len(s) : s[j].of = k})

\* the file system is as it was before the call
FileSystemUntouched ==
    /\ dirs = InitialDirs
    /\ files \in InitialFiles
    /\ \A j \in 1..Len(calls) : calls[j] \notin {"mkdir", "save"}

----------------------------------------------------------------------------
(* C1: a route of 0 or 1 points (an empty or absent list included) makes    *)
(* render_route_map return, without raising and without going any further, *)
(* a string that starts with "Error: "; a call with a route of exactly 2   *)
(* points that returns does not return such a string.                      *)
C1_RouteValidation ==
    /\ RouteLen(coordinates) < 2 => pc \in {"start", "done"}
    /\ (RouteLen(coordinates) < 2 /\ pc = "done")
          => (HasReturned /\ IsErrorString(result.value))
    /\ (RouteLen(coordinates) = 2 /\ HasReturned) => ~IsErrorString(result.value)

\* a one-point route has been answered with the error string
C1_Witness ==
    /\ HasReturned
    /\ RouteLen(coordinates) = 1
    /\ IsErrorString(result.value)
    /\ RawStr(output_path)[1] = "Error: "

(* C2: when the call ends in the validation error nothing else has been    *)
(* done: no map was constructed, no line or marker added, no tile render   *)
(* requested, no label drawn, no directory created, no file written.       *)
C2_ValidationFirst ==
    (HasReturned /\ IsErrorString(result.value))
        => /\ calls = <<>>
           /\ m = NoneVal
           /\ projected = <<>>
           /\ rectangles = <<>>
           /\ texts = <<>>
           /\ out = NoneVal
           /\ FileSystemUntouched

\* the validation error was returned to a call that had markers to draw
C2_Witness ==
    /\ HasReturned
    /\ result = Returned(ValidationMessage)
    /\ coordinates = Some(<<>>)
    /\ Len(MarkerList) > 0
    /\ Positioned(MarkerList[1])

(* C3: every background box handed to draw.rectangle lies within           *)
(* [0, width] x [0, height], whatever the text size and wherever the       *)
(* anchor projects, unless the text is wider than the image.               *)
C3_LabelBoxInsideImage ==
    \A j \in 1..Len(rectangles) :
        LET r == rectangles[j]
            tw == TextWidth(MarkerList[r.of]["label"][1], font[1])
        IN tw <= width
             => /\ 0 <= r.box[1] /\ r.box[3] <= width
                /\ 0 <= r.box[2] /\ r.box[4] <= height

(* C4: a call with a valid route that returns returns the string of the    *)
(* resolved absolute output path; by then the file is written at that      *)
(* path and every parent directory exists; the directories are made        *)
(* before the write and the write before the return.                       *)
C4_SavedAtResolvedPath ==
    LET target == Resolve(output_path) IN
    /\ pc \in {"save", "return"} => Prefixes(Parent(target)) \subseteq dirs
    /\ pc = "return" => target \in files
    /\ (HasReturned /\ RouteLen(coordinates) >= 2)
          => /\ result.value = PathStr(target)
             /\ result.value[1] = "/"
             /\ \A j \in 1..Len(result.value) : result.value[j] \notin {".", ".."}
             /\ target \in files
             /\ Prefixes(Parent(target)) \subseteq dirs
             /\ Len(calls) >= 3
             /\ SubSeq(calls, Len(calls) - 2, Len(calls)) = <<"resolve", "mkdir", "save">>

\* a relative path through directories that did not exist has been returned
\* in its resolved form, the directories made and the file written
C4_Witness ==
    /\ HasReturned
    /\ output_path = [abs |-> FALSE, parts |-> <<"sub", "dir", "route.png">>]
    /\ result.value = <<"/", "work", "/", "sub", "/", "dir", "/", "route.png">>
    /\ <<"work", "sub", "dir">> \notin InitialDirs
    /\ <<"work", "sub", "dir">> \in dirs
    /\ <<"work", "sub", "dir", "route.png">> \in files

(* C5: a marker whose lon or lat is absent or None is skipped in both      *)
(* passes (no circle, no projection, no box, no text) and never makes the  *)
(* call fail, while every other marker is processed: each marker with a    *)
(* lon and a lat, 0 included, has its circle once the first pass is over,  *)
(* and each labelled one its box and text once the second pass is over.    *)
C5_MissingPositionSkipped ==
    /\ \A k \in 1..Len(MarkerList) :
          ~Positioned(MarkerList[k])
            => /\ m # NoneVal => CountOf(m[1].markers, k) = 0
               /\ CountOf(projected, k) = 0
               /\ CountOf(rectangles, k) = 0
               /\ CountOf(texts, k) = 0
    /\ pc \notin {"start", "markers"} /\ m # NoneVal
          => \A k \in 1..Len(MarkerList) :
                Positioned(MarkerList[k]) => CountOf(m[1].markers, k) = 1
    /\ pc \in {"resolve", "mkdir", "save", "return"} \/ HasReturned
          => \A k \in 1..Len(MarkerList) :
                (Positioned(MarkerList[k]) /\ Labelled(MarkerList[k])
                 /\ RouteLen(coordinates) >= 2)
                  => CountOf(rectangles, k) = 1 /\ CountOf(texts, k) = 1
    /\ (HasRaised /\ result.value = "ValueError")
          => Positioned(MarkerList[projected[Len(projected)].of])

\* a call has returned its path after skipping a marker without a position
\* and drawing the glyph and the label of the marker at lon 0, lat 0
C5_Witness ==
    /\ HasReturned
    /\ ~IsErrorString(result.value)
    /\ Len(MarkerList) = 2
    /\ ~Positioned(MarkerList[1])
    /\ MarkerList[2] = [lon |-> <<0>>, lat |-> <<0>>, label |-> <<"Zero">>]
    /\ CountOf(m[1].markers, 2) = 1
    /\ CountOf(rectangles, 2) = 1

(* C6: once both passes are over, a marker with a lon and a lat and an     *)
(* empty or absent label has exactly one circle and no box and no text; a  *)
(* marker with a lon, a lat and a non-empty label has exactly one circle,  *)
(* one box and one text.                                                   *)
C6_GlyphAndLabelCounts ==
    (pc \in {"resolve", "mkdir", "save", "return"}
        \/ (HasReturned /\ ~IsErrorString(result.value)))
      => \A k \in 1..Len(MarkerList) :
            Positioned(MarkerList[k])
              => /\ CountOf(m[1].markers, k) = 1
                 /\ CountOf(rectangles, k) = (IF Labelled(MarkerList[k]) THEN 1 ELSE 0)
                 /\ CountOf(texts, k) = (IF Labelled(MarkerList[k]) THEN 1 ELSE 0)

\* a call has returned after a marker without a label key, a marker with an
\* empty label or a labelled marker, in some order of two
C6_Witness ==
    /\ HasReturned
    /\ ~IsErrorString(result.value)
    /\ Len(MarkerList) = 2
    /\ Positioned(MarkerList[1]) /\ ~Labelled(MarkerList[1])
    /\ Positioned(MarkerList[2]) /\ Labelled(MarkerList[2])
    /\ Len(m[1].markers) = 2
    /\ Len(rectangles) = 1 /\ rectangles[1].of = 2
    /\ Len(texts) = 1 /\ texts[1].of = 2

(* C7: when m.render() fails the call ends there, in that one error: no    *)
(* marker has been projected, no label drawn, no directory created and no  *)
(* file written, and the file system is as it was before the call.         *)
C7_RenderFailureIsTerminal ==
    (result # NoneVal /\ result = Raised("RuntimeError"))
      => /\ pc = "done"
         /\ calls[Len(calls)] = "render"
         /\ projected = <<>>
         /\ rectangles = <<>>
         /\ texts = <<>>
         /\ font = NoneVal
         /\ out = NoneVal
         /\ FileSystemUntouched

\* the render has failed in a call that had a labelled marker to draw and
\* directories to create
C7_Witness ==
    /\ HasRaised
    /\ result.value = "RuntimeError"
    /\ Len(MarkerList) > 0
    /\ Positioned(MarkerList[1]) /\ Labelled(MarkerList[1])
    /\ output_path = [abs |-> FALSE, parts |-> <<"sub", "dir", "route.png">>]
    /\ files = {<<"tmp", "nope.png">>}

(* C8: a latitude of exactly +90 or -90 degrees never yields a pixel       *)
(* position: every call of _geo_to_pixel with such a latitude raises, and  *)
(* no background box or text is drawn for a labelled marker at a pole.     *)
C8_PoleNeverProjected ==
    /\ \A j \in 1..Len(projected) :
          projected[j].lat \in {900, -900} => projected[j].outcome.kind = "raise"
    /\ \A j \in 1..Len(rectangles) :
          MarkerList[rectangles[j].of]["lat"][1] \notin {900, -900}
    /\ \A j \in 1..Len(texts) :
          MarkerList[texts[j].of]["lat"][1] \notin {900, -900}

----------------------------------------------------------------------------
(* Vocabulary of the projection's properties *)

\* the calls of _geo_to_pixel so far that returned a pixel pair
ReturnedCalls ==
    {j \in 1..Len(projected) : projected[j].outcome.kind = "return"}

PxOf(j) == projected[j].outcome.value[1]
PyOf(j) == projected[j].outcome.value[2]

Abs(x) == IF x >= 0 THEN x ELSE -x

\* v is an integer nearest to the rational num/den (den > 0)
IsNearest(v, num, den) == 2 * Abs(num - v * den) <= den

\* (x_tile - m.x_center) * tile_size + m.width / 2 as a fraction of 2 * LonDen
ExactXNum(map, lon) ==
    ((lon + 1800) * 2^map.zoom - map.x_center) * 2 * TileSize + LonDen * map.width

\* (y_tile - m.y_center) * tile_size + m.height / 2 as a fraction of 2 * MercScale
ExactYNum(map, lat) ==
    (MercatorFrac(lat) * 2^map.zoom - map.y_center) * 2 * TileSize
        + MercScale * map.height

(* C9, as claimed: for a fixed view state and latitude, pixel X is         *)
(* strictly increasing in the longitude.                                   *)
C9_StrictlyMonotonic ==
    \A a, b \in ReturnedCalls :
        (projected[a].lat = projected[b].lat /\ projected[a].lon < projected[b].lon)
            => PxOf(a) < PxOf(b)

(* C9, amended: for a fixed view state and a fixed latitude at which       *)
(* _geo_to_pixel returns, pixel X is non-decreasing in the longitude.      *)
C9_NonDecreasing ==
    \A a, b \in ReturnedCalls :
        (projected[a].lat = projected[b].lat /\ projected[a].lon < projected[b].lon)
            => PxOf(a) <= PxOf(b)

\* two calls at one latitude: two longitudes that share a pixel column
C9_Witness ==
    /\ pc = "geo"
    /\ Len(projected) = 2
    /\ ReturnedCalls = {1, 2}
    /\ projected[1].lat = projected[2].lat
    /\ projected[1].lon < projected[2].lon
    /\ PxOf(1) = PxOf(2)

(* C10: the pixel pair _geo_to_pixel returns is the pair of integers       *)
(* nearest to (tileX - centerX) * tileSize + width / 2 and to              *)
(* (tileY - centerY) * tileSize + height / 2, on either side of zero.      *)
C10_RoundsToNearest ==
    \A j \in ReturnedCalls :
        /\ IsNearest(PxOf(j), ExactXNum(m[1], projected[j].lon), 2 * LonDen)
        /\ IsNearest(PyOf(j), ExactYNum(m[1], projected[j].lat), 2 * MercScale)

====
